---------------------------- MODULE Spec2Model ----------------------------
(***************************************************************************)
(* Weighted Lloyd relaxation (stippling) of src/script.js as a state       *)
(* machine of the browser's event loop: file uploads whose decoding        *)
(* completes asynchronously, slider input events, animation-frame          *)
(* callbacks, and the rejection-sampling loop of startSimulation.          *)
(*                                                                         *)
(* Numbers.  Site coordinates are exact rationals <<num, den>> (den > 0,   *)
(* lowest terms): the Float64 arithmetic of the code is modelled as exact  *)
(* arithmetic.  Densities are counted in thirds (a pixel whose channels    *)
(* are each 0 or 255 has density 0, 1/3, 2/3 or 1), Math.random() draws    *)
(* for the threshold in sixths, so that every order between a threshold    *)
(* and a density occurs.  Math.random() * width and Math.random() * height *)
(* are drawn from the corners and the centres of the pixels.               *)
(***************************************************************************)
EXTENDS Integers, Sequences, FiniteSets

VARIABLES
    width, height,   \* let width, height (0: undefined)
    density,         \* let density = []: densities in thirds, row-major
    points,          \* let points = []: sequence of <<x, y>>, rationals
    nPoints,         \* let nPoints = 2000
    isRunning,       \* let isRunning = false
    animationId,     \* let animationId (0: undefined)
    sliderValue,     \* pointInput.value
    sliderMax,       \* pointInput.max: the counts the slider can read are 0..sliderMax
    files,           \* the files the user can select or drop
    decoding,        \* files whose createImageBitmap promise is not settled yet
    pending,         \* handles of the callbacks requestAnimationFrame holds
    pc,              \* "idle": no handler runs; "sampling": inside the loop of startSimulation
    cand,            \* the last pass of the do-while loop: x, y, d and the threshold drawn
    before,          \* the positions the last iteration of animate started from
    newPoints,       \* the locals newPoints and weights of the last iteration,
    weights,         \*   and its maxDistMoved
    maxDistMoved,
    status,          \* statusDiv.textContent
    run,             \* the width, height and count startSimulation last sampled for
    stale,           \* pending handles requested before the newest run replaced points
    ranStale,        \* the last frame callback ran a handle of stale
    cancelled,       \* the handle the last startSimulation cancelled (0: none)
    lastEvent        \* the last handler that wrote the program's variables

vars == <<width, height, density, points, nPoints, isRunning, animationId,
          sliderValue, sliderMax, files, decoding, pending, pc, cand, before,
          newPoints, weights, maxDistMoved, status, run, stale, ranStale,
          cancelled, lastEvent>>

---------------------------------------------------------------------------
(* Bounds of the model. *)

\* The largest count the slider reads.
MaxPoints == 2

\* The most uploads decoding at the same time.
MaxDecoding == 1

---------------------------------------------------------------------------
(* Exact rational arithmetic. *)

Abs(a) == IF a < 0 THEN -a ELSE a

Max(a, b) == IF a < b THEN b ELSE a

\* The one element of a singleton.  The operators below bind their
\* arguments through a singleton, so that each is evaluated once.
The(S) == CHOOSE r \in S : TRUE

RECURSIVE GCD(_, _)
GCD(a, b) ==
    The({IF bv = 0 THEN av ELSE GCD(bv, av % bv) : <<av, bv>> \in {<<a, b>>}})

\* n / d in lowest terms, d > 0.
Rat(n, d) ==
    The({<<nv \div g, dv \div g>> : <<nv, dv, g>> \in {<<n, d, GCD(Abs(n), d)>>}})

RSub(a, b) ==
    The({Rat(av[1] * bv[2] - bv[1] * av[2], av[2] * bv[2]) :
            <<av, bv>> \in {<<a, b>>}})

RAdd(a, b) ==
    The({Rat(av[1] * bv[2] + bv[1] * av[2], av[2] * bv[2]) :
            <<av, bv>> \in {<<a, b>>}})

RMul(a, b) ==
    The({Rat(av[1] * bv[1], av[2] * bv[2]) : <<av, bv>> \in {<<a, b>>}})

RLess(a, b) ==
    The({av[1] * bv[2] < bv[1] * av[2] : <<av, bv>> \in {<<a, b>>}})

\* Math.floor of a rational.
Floor(a) == a[1] \div a[2]

Zero == <<0, 1>>

\* dx * dx + dy * dy between two positions.
Dist2(p, q) ==
    The({RAdd(RMul(dx, dx), RMul(dy, dy)) :
            <<dx, dy>> \in {<<RSub(p[1], q[1]), RSub(p[2], q[2])>>}})

RECURSIVE SumSeq(_)
SumSeq(s) == IF s = <<>> THEN 0 ELSE Head(s) + SumSeq(Tail(s))

---------------------------------------------------------------------------
(* Files: a bitmap of bw x bh pixels <<r, g, b>>, or a file that is no     *)
(* image (createImageBitmap rejects).                                      *)

Black == <<0, 0, 0>>
Red == <<255, 0, 0>>
Yellow == <<255, 255, 0>>
White == <<255, 255, 255>>

Bitmap(name, bw, bh, px) ==
    [name |-> name, image |-> TRUE, bw |-> bw, bh |-> bh, px |-> px]

\* Black and white side by side: the site sampled over the white pixel may strand.
Pair == Bitmap("pair", 2, 1, <<Black, White>>)

\* Two grey levels: thresholds between the levels are rejected over one pixel only.
Shade == Bitmap("shade", 2, 1, <<Red, Yellow>>)

\* An all-white image: the Field is identically zero.
Blank == Bitmap("blank", 1, 1, <<White>>)

\* 1 x 1000: scaled to the canvas it is 0 pixels wide.
Sliver == Bitmap("sliver", 1, 1000, [i \in 1..1000 |-> White])

\* The 10 x 10 Field of weight 1.0.
Uniform == Bitmap("uniform", 10, 10, [i \in 1..100 |-> Black])

\* White and black side by side: the first location the sweep does not skip
\* is the second one.
Mirror == Bitmap("mirror", 2, 1, <<White, Black>>)

NotAnImage == [name |-> "text", image |-> FALSE, bw |-> 0, bh |-> 0, px |-> <<>>]

AllFiles == {Pair, Shade, Blank, Sliver, Uniform, Mirror, NotAnImage}

\* Files are held by name.
File(name) == CHOOSE f \in AllFiles : f.name = name

SmallFiles == {"pair", "shade", "blank", "sliver", "text"}

UniformFiles == {"uniform", "text"}

LiveFiles == {"pair", "blank", "sliver", "text"}

MirrorFiles == {"mirror", "text"}

---------------------------------------------------------------------------
(* handleFiles: the Field of an uploaded bitmap. *)

maxDim == 800

\* width = Math.floor(bitmap.width * scale), scale = maxDim / max(width, height)
\* when a side exceeds maxDim, else 1.
ScaledDim(d, bw, bh) ==
    IF bw > maxDim \/ bh > maxDim THEN (d * maxDim) \div Max(bw, bh) ELSE d

\* ctx.drawImage(bitmap, 0, 0, width, height) then getImageData: the pixel
\* at row-major index i (from 0) of the w x h canvas, taken from the
\* bitmap's pixel under it.
ImageData(f, w, h, i) ==
    LET x == i % w
        y == i \div w
        sx == (x * f.bw) \div w
        sy == (y * f.bh) \div h
    IN  f.px[sy * f.bw + sx + 1]

\* density[i] = 1 - (r + g + b) / 3 / 255, in thirds.
Density(px) == 3 - ((px[1] + px[2] + px[3]) \div 255)

DensityMap(f, w, h) == [i \in 1..(w * h) |-> Density(ImageData(f, w, h, i - 1))]

---------------------------------------------------------------------------
(* animate: one iteration, as a function of the sites and the Field. *)

\* What delaunay.find returns over no sites at all: NaN, no index of a site.
NaN == -1

\* The pixel (x, y) as a position.
At(x, y) == <<Rat(x, 1), Rat(y, 1)>>

\* The sites no other site is closer to (x, y) than.
Nearest(pts, n, x, y) ==
    The({{i \in 0..(n - 1) : \A j \in 0..(n - 1) : ~RLess(d[j], d[i])} :
            d \in {[i \in 0..(n - 1) |-> Dist2(pts[i + 1], At(x, y))]}})

\* delaunay.find(x, y, hint) of d3-delaunay: a walk from the site hint to a
\* neighbour strictly closer to (x, y), until there is none.  It ends at a
\* nearest site; it stays at hint when hint is one and is in the
\* triangulation (of coincident sites the triangulation keeps one).
Find(pts, n, x, y, hint) ==
    IF n <= 0 THEN {NaN}
    ELSE The({IF /\ hint \in near
                 /\ \A j \in 0..(n - 1) : j # hint => pts[j + 1] # pts[hint + 1]
              THEN {hint}
              ELSE near : near \in {Nearest(pts, n, x, y)}})

\* A faulty variant: buffers of the right size are used again as they are.
StaleAcc(n) ==
    IF n >= 1 /\ Len(weights) = n
    THEN [newPoints |-> newPoints, weights |-> weights]
    ELSE [newPoints |-> [k \in 1..(2 * Max(n, 0)) |-> 0],
          weights |-> [k \in 1..Max(n, 0) |-> 0]]

\* new Float64Array(nPoints * 2), new Float64Array(nPoints): all zero.
ZeroAcc(n) ==
    [newPoints |-> [k \in 1..(2 * Max(n, 0)) |-> 0],
     weights |-> [k \in 1..Max(n, 0) |-> 0]]

\* A faulty variant: pixel coordinates counted from 1.
AccumulateFromOne(acc, i, x, y, w) ==
    IF i + 1 \notin DOMAIN acc.weights THEN acc
    ELSE [newPoints |-> [acc.newPoints EXCEPT ![2 * i + 1] = @ + (x + 1) * w,
                                              ![2 * i + 2] = @ + (y + 1) * w],
          weights |-> [acc.weights EXCEPT ![i + 1] = @ + w]]

\* newPoints[i * 2] += x * w; newPoints[i * 2 + 1] += y * w; weights[i] += w.
\* A write at an index a typed array does not have is dropped.
Accumulate(acc, i, x, y, w) ==
    IF i + 1 \notin DOMAIN acc.weights THEN acc
    ELSE [newPoints |-> [acc.newPoints EXCEPT ![2 * i + 1] = @ + x * w,
                                              ![2 * i + 2] = @ + y * w],
          weights |-> [acc.weights EXCEPT ![i + 1] = @ + w]]

\* A faulty variant: the hint is what a run in progress left behind.
LeftoverHint == IF isRunning THEN 1 ELSE 0

\* let nextIndex = 0
FirstHint == 0

\* The body of the sweep at the pixel (x, y), from the accumulators and
\* the hint in st: every outcome, one per site the query can return.
Visit(st, pts, n, w, dens, x, y) ==
    IF dens[y * w + x + 1] <= 0 THEN {st}
    ELSE {[acc |-> Accumulate(st.acc, c, x, y, dens[y * w + x + 1]), nextIndex |-> c] :
             c \in Find(pts, n, x, y, st.nextIndex)}

\* The raster sweep, for (y) { for (x) { ... } }: every outcome of the
\* accumulation, one per way the nearest-site queries can fall among equally
\* near sites.  Rows of no pixel (width 0) are passed over at once.
Sweep(pts, n, w, h, dens) ==
    LET RECURSIVE Row(_, _, _)
        Row(x, y, sts) ==
            IF x >= w THEN sts
            ELSE Row(x + 1, y, UNION {Visit(st, pts, n, w, dens, x, y) : st \in sts})
        RECURSIVE Rows(_, _)
        Rows(y, sts) ==
            IF y >= h \/ w <= 0 THEN sts
            ELSE Rows(y + 1, The({Row(0, y, v) : v \in {sts}}))
    IN  {st.acc : st \in Rows(0, {[acc |-> ZeroAcc(n), nextIndex |-> FirstHint]})}

\* nx = newPoints[i * 2] / w, ny = newPoints[i * 2 + 1] / w.
Centroid(acc, i) ==
    <<Rat(acc.newPoints[2 * i + 1], acc.weights[i + 1]),
      Rat(acc.newPoints[2 * i + 2], acc.weights[i + 1])>>

\* A faulty variant: a site without weight is respawned at the origin.
RelocateRespawning(pts, acc, i) ==
    IF acc.weights[i + 1] > 0 THEN Centroid(acc, i) ELSE <<Zero, Zero>>

\* The position of site i after the update step.
Relocate(pts, acc, i) ==
    IF acc.weights[i + 1] > 0 THEN Centroid(acc, i) ELSE pts[i + 1]

\* The update step: the new positions and maxDistMoved.
Relax(pts, n, acc) ==
    LET RECURSIVE Go(_, _, _)
        Go(i, ps, maxDist) ==
            IF i >= n THEN [points |-> ps, maxDistMoved |-> maxDist]
            ELSE IF acc.weights[i + 1] > 0
                 THEN LET np == Relocate(pts, acc, i)
                          dist == Dist2(np, pts[i + 1])
                      IN  Go(i + 1, [ps EXCEPT ![i + 1] = np],
                             IF RLess(maxDist, dist) THEN dist ELSE maxDist)
                 ELSE Go(i + 1, [ps EXCEPT ![i + 1] = Relocate(pts, acc, i)], maxDist)
    IN  Go(0, pts, Zero)

\* Every outcome of one iteration over the sites pts.
Iterations(pts, n, w, h, dens) ==
    {[moved |-> Relax(pts, n, acc), acc |-> acc] : acc \in Sweep(pts, n, w, h, dens)}

\* Math.floor(Math.sqrt(n)) of a natural number n.
RECURSIVE ISqrt(_)
ISqrt(n) ==
    IF n < 2 THEN n
    ELSE The({IF (s + 1) * (s + 1) <= n THEN s + 1 ELSE s :
                 s \in {2 * ISqrt(n \div 4)}})

\* A faulty variant: the squared displacement is shown, to two decimals.
MotionSquared(maxDist) == ((200 * maxDist[1]) \div maxDist[2] + 1) \div 2

\* Math.sqrt(maxDistMoved).toFixed(2): the digits shown, as hundredths.
MaxMotion(maxDist) == (ISqrt((40000 * maxDist[1]) \div maxDist[2]) + 1) \div 2

---------------------------------------------------------------------------
(* The host: animation-frame handles. *)

\* requestAnimationFrame returns a handle no pending callback has.  Handles
\* are reused once neither the host nor animationId holds them.
NewHandle(pend, cur) ==
    CHOOSE i \in 1..(Cardinality(pend) + 2) :
        /\ i \notin pend \cup {cur}
        /\ \A j \in 1..(i - 1) : j \in pend \cup {cur}

\* A faulty variant: the pending callback is not cancelled.
NoCancel(pend, id) == pend

\* cancelAnimationFrame(id).
CancelAnimationFrame(pend, id) == pend \ {id}

\* A faulty variant: the loop stops once no site moved.
StopWhenSettled(pend, id, maxDist) ==
    IF maxDist = Zero THEN pend ELSE pend \cup {id}

\* animationId = requestAnimationFrame(animate), whatever the iteration's
\* maxDistMoved was: the callbacks pending after it.
RequestAnimationFrame(pend, id, maxDist) == pend \cup {id}

\* No pass of the loop: none yet, or a frame callback ran since.
NoCand == <<>>

NoRun == [w |-> 0, h |-> 0, n |-> 0]

---------------------------------------------------------------------------
(* The handlers. *)

IterationVars == <<before, newPoints, weights, maxDistMoved, status>>

RunVars == <<points, nPoints, isRunning, animationId, pending, pc, cand, run,
             stale, ranStale, cancelled>>

\* animate() over the sites pts, with pend the callbacks pending when it is called.
Animate(running, pts, n, w, h, dens, pend) ==
    IF ~running
    THEN /\ points' = pts
         /\ pending' = pend
         /\ UNCHANGED <<animationId, IterationVars>>
    ELSE \E out \in Iterations(pts, n, w, h, dens) :
            LET id == NewHandle(pend, animationId)
            IN  /\ before' = pts
                /\ points' = out.moved.points
                /\ newPoints' = out.acc.newPoints
                /\ weights' = out.acc.weights
                /\ maxDistMoved' = out.moved.maxDistMoved
                /\ status' = <<"motion", MaxMotion(maxDistMoved')>>
                /\ animationId' = id
                /\ pending' = RequestAnimationFrame(pend, id, maxDistMoved')

\* startSimulation() after its sampling loop: the sites pts are placed.
Launch(pts, n, w, h, dens, old) ==
    LET pend == IF isRunning THEN CancelAnimationFrame(pending, animationId)
                ELSE pending
    IN  /\ cancelled' = IF isRunning /\ animationId \in pending
                        THEN animationId ELSE 0
        /\ isRunning' = TRUE
        /\ Animate(TRUE, pts, n, w, h, dens, pend)
        /\ stale' = old \cap pend
        /\ ranStale' = FALSE
        /\ pc' = "idle"
        /\ run' = [w |-> w, h |-> h, n |-> n]
        /\ lastEvent' = "start"

\* A faulty variant: only a Field without both dimensions is turned away.
NoDimensions(w, h) == w = 0 /\ h = 0

\* if (!width || !height) return
NoImage(w, h) == w = 0 \/ h = 0

\* startSimulation() over the Field (w, h, dens), the slider reading v.
StartSimulation(w, h, dens, v) ==
    IF NoImage(w, h)
    THEN /\ lastEvent' = "startRejected"
         /\ UNCHANGED <<RunVars, IterationVars>>
    ELSE /\ nPoints' = v
         /\ IF v <= 0
            THEN /\ Launch(<<>>, v, w, h, dens, pending)
                 /\ cand' = NoCand
            ELSE /\ points' = <<>>
                 /\ pc' = "sampling"
                 /\ cand' = NoCand
                 /\ run' = [w |-> w, h |-> h, n |-> v]
                 /\ stale' = pending
                 /\ ranStale' = FALSE
                 /\ cancelled' = 0
                 /\ before' = <<>>
                 /\ newPoints' = <<>>
                 /\ weights' = <<>>
                 /\ maxDistMoved' = Zero
                 /\ status' = <<"processing", w, h, v>>
                 /\ lastEvent' = "start"
                 /\ UNCHANGED <<isRunning, animationId, pending>>

\* A faulty variant: a threshold equal to the density is rejected as well.
RejectsEqual(r, d) == r >= 2 * d

\* Math.random() > d, the threshold r in sixths and d in thirds.
Rejects(r, d) == r > 2 * d

\* x = Math.random() * width, y = Math.random() * height: the corner
\* (cx, cy) and the centre (cx + 1/2, cy + 1/2) of every pixel.
Candidates(w, h) ==
    {<<Rat(2 * cx + k, 2), Rat(2 * cy + k, 2)>> :
        cx \in 0..(w - 1), cy \in 0..(h - 1), k \in {0, 1}}

\* The thresholds Math.random() draws against the density d, in sixths:
\* those next to d, below 1.
Thresholds(d) == {r \in 0..5 : Abs(r - 2 * d) <= 1}

\* One pass of the do-while loop of startSimulation; the pass that places
\* the last site runs the rest of startSimulation.
SampleDraw ==
    /\ pc = "sampling"
    /\ \E p \in Candidates(width, height) :
          LET idx == Floor(p[2]) * width + Floor(p[1])
              d == density[idx + 1]
          IN  \E r \in Thresholds(d) :
              /\ cand' = <<p[1], p[2], d, r>>
              /\ IF Rejects(r, d)
                 THEN UNCHANGED <<points, nPoints, isRunning, animationId, pending,
                                  pc, run, stale, ranStale, cancelled,
                                  IterationVars, lastEvent>>
                 ELSE IF Len(points) + 1 < nPoints
                      THEN /\ points' = Append(points, p)
                           /\ UNCHANGED <<nPoints, isRunning, animationId, pending,
                                          pc, run, stale, ranStale, cancelled,
                                          IterationVars, lastEvent>>
                      ELSE /\ Launch(Append(points, p), nPoints, width, height,
                                     density, stale)
                           /\ UNCHANGED nPoints
    /\ UNCHANGED <<width, height, density, sliderValue, sliderMax, files, decoding>>

\* handleFiles(files) up to await createImageBitmap(file).
SelectFile(f) ==
    /\ pc = "idle"
    /\ f \in files
    /\ f \notin decoding
    /\ Cardinality(decoding) < MaxDecoding
    /\ decoding' = decoding \cup {f}
    /\ UNCHANGED <<width, height, density, sliderValue, sliderMax, files,
                   RunVars, IterationVars, lastEvent>>

\* createImageBitmap(file) rejects: handleFiles ends there.
DecodeReject(f) ==
    /\ pc = "idle"
    /\ f \in decoding
    /\ ~File(f).image
    /\ decoding' = decoding \ {f}
    /\ UNCHANGED <<width, height, density, sliderValue, sliderMax, files,
                   RunVars, IterationVars, lastEvent>>

\* handleFiles(files) after the await.  getImageData throws IndexSizeError
\* over a canvas without pixels: width and height are written, density is not.
DecodeDone(f) ==
    /\ pc = "idle"
    /\ f \in decoding
    /\ File(f).image
    /\ decoding' = decoding \ {f}
    /\ LET w == ScaledDim(File(f).bw, File(f).bw, File(f).bh)
           h == ScaledDim(File(f).bh, File(f).bw, File(f).bh)
       IN  /\ width' = w
           /\ height' = h
           /\ IF w = 0 \/ h = 0
              THEN /\ lastEvent' = "decodeThrow"
                   /\ UNCHANGED <<density, RunVars, IterationVars>>
              ELSE /\ density' = DensityMap(File(f), w, h)
                   /\ StartSimulation(w, h, density', sliderValue)
    /\ UNCHANGED <<sliderValue, sliderMax, files>>

\* The slider's input event, the value now v.
SliderInput(v) ==
    /\ pc = "idle"
    /\ v \in 0..sliderMax
    /\ v # sliderValue
    /\ sliderValue' = v
    /\ IF Len(density) > 0
       THEN StartSimulation(width, height, density, v)
       ELSE UNCHANGED <<RunVars, IterationVars, lastEvent>>
    /\ UNCHANGED <<width, height, density, sliderMax, files, decoding>>

\* The host runs the pending callback id: animate().
Frame(id) ==
    /\ pc = "idle"
    /\ id \in pending
    /\ Animate(isRunning, points, nPoints, width, height, density, pending \ {id})
    /\ ranStale' = (id \in stale)
    /\ stale' = stale \ {id}
    /\ cancelled' = 0
    /\ cand' = NoCand
    /\ lastEvent' = "frame"
    /\ UNCHANGED <<width, height, density, sliderValue, sliderMax, files, decoding,
                   nPoints, isRunning, pc, run>>

---------------------------------------------------------------------------
(* The specifications. *)

\* The page as loaded, the user holding the files fs, the slider reading
\* any of 0..m.
Loaded(fs, m) ==
    /\ width = 0
    /\ height = 0
    /\ density = <<>>
    /\ points = <<>>
    /\ nPoints = 2000
    /\ isRunning = FALSE
    /\ animationId = 0
    /\ sliderMax = m
    /\ sliderValue \in 0..m
    /\ files = fs
    /\ decoding = {}
    /\ pending = {}
    /\ pc = "idle"
    /\ cand = NoCand
    /\ before = <<>>
    /\ newPoints = <<>>
    /\ weights = <<>>
    /\ maxDistMoved = Zero
    /\ status = <<"load">>
    /\ run = NoRun
    /\ stale = {}
    /\ ranStale = FALSE
    /\ cancelled = 0
    /\ lastEvent = "load"

Init == Loaded(SmallFiles, MaxPoints)

Next ==
    \/ \E f \in files : SelectFile(f)
    \/ \E f \in decoding : DecodeReject(f)
    \/ \E f \in decoding : DecodeDone(f)
    \/ \E v \in 0..sliderMax : SliderInput(v)
    \/ \E id \in pending : Frame(id)
    \/ SampleDraw

Spec == Init /\ [][Next]_vars

\* The 10 x 10 Field of weight 1.0, the slider reading 0 or 1.
InitUniform == Loaded(UniformFiles, 1)

SpecUniform == InitUniform /\ [][Next]_vars

\* The host runs a pending frame callback, settles a decoding and keeps the
\* sampling loop running; the user owes no event.
Fairness ==
    /\ WF_vars(\E id \in pending : Frame(id))
    /\ WF_vars(\E f \in decoding : DecodeReject(f))
    /\ WF_vars(\E f \in decoding : DecodeDone(f))
    /\ WF_vars(SampleDraw)

\* The slider reading 0 or 1.
InitLive == Loaded(LiveFiles, 1)

LiveSpec == InitLive /\ [][Next]_vars /\ Fairness

\* The white-and-black image at hand.
InitMirror == Loaded(MirrorFiles, MaxPoints)

SpecMirror == InitMirror /\ [][Next]_vars

---------------------------------------------------------------------------
(* Properties. *)

\* A handler has returned and its last iteration is the latest write to the sites.
Iterated == pc = "idle" /\ isRunning

InDomain(p, w, h) ==
    /\ ~RLess(p[1], Zero) /\ RLess(p[1], Rat(w, 1))
    /\ ~RLess(p[2], Zero) /\ RLess(p[2], Rat(h, 1))

\* C1: a callback requested by a run that a later startSimulation superseded
\* never runs: no frame callback ran a stale handle, and once startSimulation
\* has returned no pending handle is stale.
C1_NoStaleIteration ==
    /\ ~ranStale
    /\ pc = "idle" => stale = {}

\* startSimulation has returned after cancelling the callback of the run before.
C1_Witness ==
    /\ lastEvent = "start"
    /\ pc = "idle"
    /\ cancelled # 0
    /\ cancelled \notin pending
    /\ pending = {animationId}

\* C3: once startSimulation has sampled for a count N >= 1 over a w x h
\* Field, the sites it placed and the sites after every iteration are N
\* positions, each within 0 <= x < w and 0 <= y < h.
C3_SiteCountAndBounds ==
    (Iterated /\ run.n >= 1) =>
        /\ nPoints = run.n
        /\ Len(points) = run.n
        /\ Len(before) = run.n
        /\ \A i \in 1..Len(points) : InDomain(points[i], run.w, run.h)
        /\ \A i \in 1..Len(before) : InDomain(before[i], run.w, run.h)

\* A restart with the largest count whose first iteration moved a site.
C3_Witness ==
    /\ Iterated
    /\ run.n = MaxPoints
    /\ cancelled # 0
    /\ maxDistMoved # Zero

\* C9: at most one frame callback is pending; exactly one while the driver
\* is running and no handler executes; none before the first run.
C9_OneIterationAtATime ==
    /\ Cardinality(pending) <= 1
    /\ Iterated => Cardinality(pending) = 1
    /\ ~isRunning => pending = {}

\* startSimulation is sampling for a new run while the callback of the
\* running one is still pending.
C9_Witness ==
    /\ pc = "sampling"
    /\ isRunning
    /\ pending = {animationId}
    /\ Len(points) >= 1

\* The sum of density over the locations the sweep does not skip.
FieldMass(w, h, dens) ==
    SumSeq([k \in 1..(w * h) |-> IF dens[k] > 0 THEN dens[k] ELSE 0])

\* C2, over the Field it names, the one whose weights are all zero: the
\* sampling loop of startSimulation always ends, a startSimulation that began
\* sampling reaches the point where it has returned, the run marked running
\* and its first iteration done.
C2_SamplingTerminates ==
    (pc = "sampling" /\ FieldMass(width, height, density) = 0)
        ~> (pc = "idle" /\ isRunning)

\* C4: after the sweep of an iteration the weight-sums of the sites add up
\* to the density of all locations of positive density.
C4_MassConserved ==
    (Iterated /\ lastEvent \in {"start", "frame"}) =>
        SumSeq(weights) = FieldMass(width, height, density)

\* The largest of a set of rationals that holds Zero.
RMax(S) == CHOOSE m \in S : \A r \in S : ~RLess(m, r)

\* C5: after the update step of an iteration a site whose weight-sum is 0 is
\* where it was before, a site whose weight-sum is positive is at
\* positionSum / weightSum, and maxDistMoved is the largest squared
\* displacement of the sites with positive weight-sum (0 when there is none).
C5_StrandedSitesStay ==
    Iterated =>
        /\ \A i \in 1..Len(points) :
              /\ weights[i] = 0 => points[i] = before[i]
              /\ weights[i] > 0 =>
                    points[i] = <<Rat(newPoints[2 * i - 1], weights[i]),
                                  Rat(newPoints[2 * i], weights[i])>>
        /\ maxDistMoved =
              RMax({Zero} \cup {Dist2(points[i], before[i]) :
                                   i \in {j \in 1..Len(points) : weights[j] > 0}})

\* An iteration that left one site stranded, off the origin, and moved another.
C5_Witness ==
    /\ Iterated
    /\ \E i \in 1..Len(points) :
          weights[i] = 0 /\ points[i] = before[i] /\ points[i] # <<Zero, Zero>>
    /\ \E i \in 1..Len(points) : weights[i] > 0
    /\ \E i \in 1..Len(before) : weights[i] > 0 /\ before[i] # points[i]

\* startSimulation has just run its first iteration over the 10 x 10
\* Field of weight 1.0 with a single site.
UniformStarted ==
    /\ Iterated
    /\ lastEvent = "start"
    /\ run = [w |-> 10, h |-> 10, n |-> 1]
    /\ density = [i \in 1..100 |-> 3]

\* C6 as stated: after one iteration the site is at (5.0, 5.0).
C6_SiteAtFiveFive == UniformStarted => points = <<At(5, 5)>>

\* C6 as amended: after one iteration the site is at (4.5, 4.5), the mean
\* of the pixel coordinates 0..9, wherever the sampler placed it.
C6_SiteAtMeanPixel == UniformStarted => points = <<<<Rat(9, 2), Rat(9, 2)>>>>

\* The sampler placed the site at the far corner pixel and the iteration moved it.
C6_Witness ==
    /\ UniformStarted
    /\ before = <<At(9, 9)>>
    /\ points # before

\* C7: a startSimulation that reads a count N <= 0 begins no run: it leaves
\* the sites, isRunning and the pending callback as they were.
C7_InvalidCountRejected ==
    [][(lastEvent' = "start" /\ nPoints' <= 0)
          => UNCHANGED <<points, isRunning, animationId, pending>>]_vars

\* The Field startSimulation reads has width * height weights in [0, 1]
\* whenever it has both dimensions.
FieldWellFormed ==
    /\ (width > 0 /\ height > 0) => Len(density) = width * height
    /\ \A k \in 1..Len(density) : density[k] \in 0..3

\* C8: a startSimulation called over an invalid Field begins no run and
\* changes nothing of the run in progress.  The slider calls it whenever
\* density holds weights; the only invalid Field that reaches it lacks a
\* dimension, the weights being well formed in every state.
C8_InvalidFieldRejected ==
    /\ []FieldWellFormed
    /\ [][(pc = "idle" /\ sliderValue' # sliderValue /\ Len(density) > 0
              /\ (width <= 0 \/ height <= 0))
             => UNCHANGED <<points, nPoints, isRunning, animationId, pending, pc,
                            before, newPoints, weights, maxDistMoved>>]_vars

\* A startSimulation was turned away while a run with sites was in progress.
C8_Witness ==
    /\ lastEvent = "startRejected"
    /\ isRunning
    /\ pending = {animationId}
    /\ Len(points) >= 1
    /\ nPoints # sliderValue

\* C10: the driver never leaves Running, a handler that returns while it is
\* running leaves a callback pending, and the callback pending when no
\* handler executes is followed by a later one unless a startSimulation
\* begins sampling for a new run.
C10_NoTerminalState ==
    /\ [][isRunning => (isRunning' /\ (pc' = "idle" => pending' # {}))]_vars
    /\ [](animationId \in 0..2)
    /\ \A i \in 1..2 :
          (Iterated /\ animationId = i) ~> (animationId # i \/ pc = "sampling")

\* A frame callback's iteration moved no site and requested the next frame.
C10_Witness ==
    /\ Iterated
    /\ lastEvent = "frame"
    /\ maxDistMoved = Zero
    /\ Len(points) >= 1
    /\ pending = {animationId}

\* The sum of density * x (axis 1) or density * y (axis 2) over the
\* locations of positive density.
FieldMoment(w, h, dens, axis) ==
    SumSeq([k \in 1..(w * h) |->
               IF dens[k] > 0
               THEN dens[k] * (IF axis = 1 THEN (k - 1) % w ELSE (k - 1) \div w)
               ELSE 0])

\* The Field's global weighted centroid.
GlobalCentroid(w, h, dens) ==
    <<Rat(FieldMoment(w, h, dens, 1), FieldMass(w, h, dens)),
      Rat(FieldMoment(w, h, dens, 2), FieldMass(w, h, dens))>>

\* A run of a single site over a Field of positive total weight.
SingleSiteRun ==
    /\ Iterated
    /\ lastEvent \in {"start", "frame"}
    /\ run.n = 1
    /\ FieldMass(run.w, run.h, density) > 0

\* C11: with N = 1 over a Field of positive total weight the first
\* iteration leaves the site at the Field's global weighted centroid,
\* wherever it was sampled, and every later iteration leaves it there with
\* maxDistMoved = 0.
C11_SingleSiteFixedPoint ==
    SingleSiteRun =>
        /\ points = <<GlobalCentroid(run.w, run.h, density)>>
        /\ lastEvent = "frame" => (points = before /\ maxDistMoved = Zero)

\* A second iteration over the two grey levels: the site rests at (1/3, 0).
C11_Witness ==
    /\ SingleSiteRun
    /\ lastEvent = "frame"
    /\ density = <<2, 1>>
    /\ points = <<<<Rat(1, 3), Zero>>>>
    /\ maxDistMoved = Zero

\* What an iteration leaves behind, as Iterations gives it.
IterationResult ==
    [moved |-> [points |-> points, maxDistMoved |-> maxDistMoved],
     acc |-> [newPoints |-> newPoints, weights |-> weights]]

Distinct(pts) ==
    \A i, j \in 1..Len(pts) : i # j => pts[i] # pts[j]

JustIterated == Iterated /\ lastEvent \in {"start", "frame"}

\* The largest squared displacement over all the sites of the last iteration.
MaxDisplacement ==
    RMax({Zero} \cup {Dist2(points[i], before[i]) : i \in 1..Len(points)})

\* C13 as stated: the value the iteration reports is the largest squared
\* displacement (to the two decimals the status line has), and it is 0
\* exactly when no site moved.
C13_ReportsSquared ==
    JustIterated =>
        /\ status[1] = "motion"
        /\ 2 * status[2] - 1 <= (200 * MaxDisplacement[1]) \div MaxDisplacement[2]
        /\ (200 * MaxDisplacement[1]) \div MaxDisplacement[2] < 2 * status[2] + 1
        /\ status[2] = 0 <=> points = before

\* C13 as amended: maxDistMoved is the largest squared displacement over all
\* sites, 0 exactly when no site moved; the status line shows its square
\* root to two decimals, the h hundredths with
\* (h - 1/2) / 100 <= sqrt(maxDistMoved) < (h + 1/2) / 100.
C13_ReportsRoot ==
    JustIterated =>
        /\ maxDistMoved = MaxDisplacement
        /\ ~RLess(maxDistMoved, Zero)
        /\ maxDistMoved = Zero <=> points = before
        /\ status[1] = "motion"
        /\ status[2] >= 0
        /\ status[2] > 0 =>
              ~RLess(maxDistMoved, Rat((2 * status[2] - 1) * (2 * status[2] - 1), 40000))
        /\ RLess(maxDistMoved, Rat((2 * status[2] + 1) * (2 * status[2] + 1), 40000))

\* Of two sites one moved from a pixel's centre to its corner: the squared
\* displacement is 0.5, the status line shows 0.71.
C13_Witness ==
    /\ JustIterated
    /\ Len(points) = 2
    /\ maxDistMoved = Rat(1, 2)
    /\ status = <<"motion", 71>>
    /\ \E i \in 1..Len(points) : points[i] = before[i]

\* The sites placed so far, in a state after a pass of the sampling loop.
Placed == IF pc = "sampling" THEN points ELSE before

SumAlternate(s, parity) ==
    SumSeq([k \in 1..(Len(s) \div 2) |-> s[2 * k - parity]])

\* C15: an iteration run by a frame callback leaves the Field as it was and
\* sweeps over the sites as they were; every iteration's buffers have one
\* weight-sum and two position-sums per site and hold, summed over the sites
\* (N >= 1), the mass and the two first moments of the Field and nothing of
\* an earlier iteration or run.
C15_AccumulatorFrame ==
    [][(pc' = "idle" /\ lastEvent' \in {"start", "frame"}
           /\ animationId' # animationId) =>
          /\ lastEvent' = "frame" =>
                (UNCHANGED <<density, width, height, nPoints>> /\ before' = points)
          /\ Len(weights') = Max(nPoints', 0)
          /\ Len(newPoints') = 2 * Max(nPoints', 0)
          /\ nPoints' >= 1 =>
                /\ SumSeq(weights') = FieldMass(width', height', density')
                /\ SumAlternate(newPoints', 1) = FieldMoment(width', height', density', 1)
                /\ SumAlternate(newPoints', 0) = FieldMoment(width', height', density', 2)]_vars

\* A frame callback ran a further iteration of two sites that both carry weight.
C15_Witness ==
    /\ JustIterated
    /\ lastEvent = "frame"
    /\ run.n = 2
    /\ weights[1] > 0
    /\ weights[2] > 0
    /\ newPoints[3] > 0
    /\ points = before

\* The lowest index among the sites nearest to (x, y).
LowestNearest(pts, n, x, y) ==
    CHOOSE i \in Nearest(pts, n, x, y) : \A j \in Nearest(pts, n, x, y) : i <= j

\* The weight-sums when every swept location goes to the lowest-indexed of
\* its nearest sites.
LowestWeights(pts, n, w, h, dens) ==
    [i \in 1..n |->
        SumSeq([k \in 1..(w * h) |->
                   IF dens[k] > 0 /\ LowestNearest(pts, n, (k - 1) % w, (k - 1) \div w) = i - 1
                   THEN dens[k] ELSE 0])]

\* C16, for sites at distinct positions: the weight of every swept location
\* went to the lowest-indexed of the sites nearest to it, whatever the hint.
C16_TiesToLowestIndex ==
    (JustIterated /\ run.n >= 1 /\ Distinct(before)) =>
        weights = LowestWeights(before, run.n, width, height, density)

\* C17: whenever an iteration is about to begin, a frame callback pending
\* and no handler executing, density has width * height entries and points
\* has nPoints entries.
C17_RunContextConsistent ==
    (pc = "idle" /\ isRunning /\ pending # {}) =>
        /\ Len(density) = width * height
        /\ Len(points) = nPoints

\* The integer locations of positive density.
PositiveLocations(w, h, dens) ==
    {l \in (0..(w - 1)) \X (0..(h - 1)) : dens[l[2] * w + l[1] + 1] > 0}

\* p lies in the axis-aligned bounding box of the locations L.
InBoundingBox(p, L) ==
    \A axis \in {1, 2} :
        /\ \E l \in L : ~RLess(p[axis], Rat(l[axis], 1))
        /\ \E l \in L : ~RLess(Rat(l[axis], 1), p[axis])

\* C18: after an iteration every site whose weight-sum is positive lies in
\* the bounding box of the locations of positive density.
C18_CentroidContained ==
    JustIterated =>
        \A i \in 1..Len(points) :
            weights[i] > 0 =>
                InBoundingBox(points[i], PositiveLocations(width, height, density))

\* Over the black-and-white image one site was moved onto the black
\* location, the other stays stranded outside the box.
C18_Witness ==
    /\ JustIterated
    /\ density = <<3, 0>>
    /\ \E i \in 1..Len(points) :
          weights[i] > 0 /\ points[i] = <<Zero, Zero>> /\ before[i] # points[i]
    /\ \E j \in 1..Len(points) :
          weights[j] = 0 /\ RLess(Zero, points[j][1])

\* The sites and the count agree whenever an iteration is about to begin.
SitesMatchCount ==
    (pc = "idle" /\ isRunning /\ pending # {}) => Len(points) = nPoints

=============================================================================
